---------------------------- MODULE Spec2Model ----------------------------
(***************************************************************************)
(* The budget ledger of avnon-builder: BudgetService (the signal holding   *)
(* one BudgetData snapshot, its mutators and its rollup queries) and the   *)
(* category-creation handler of BudgetTableComponent.                      *)
(*                                                                         *)
(* Conventions.  Arrays are TLA+ sequences read through 0-based helpers    *)
(* (At, FindIndex, Splice) so that indices are the source's indices.       *)
(* `undefined` is the value Undefined.  A values map is a function whose   *)
(* DOMAIN is the set of month keys that have a stored value.  A category   *)
(* name typed by the user is a sequence of one-character strings, so that  *)
(* lower-casing and the whitespace replacement are computed; stored names, *)
(* ids and month keys are strings.  A balance query yields an outcome:     *)
(* Returns(n), or Throws(TypeError).                                       *)
(*                                                                         *)
(* Four specifications.  Spec takes every public call as one step.        *)
(* SpecSets takes every budgetData.set as one step, which splits           *)
(* applyToAll into its forEach iterations.  SpecMonths exercises the month *)
(* axis alone over a grid of ranges.  SpecBalance runs the balance queries *)
(* and generateMonths one call, one return and one loop iteration at a     *)
(* time, on a call stack.                                                  *)
(***************************************************************************)
EXTENDS Integers, Sequences, FiniteSets, TLC

VARIABLES
    budgetData,  \* the signal of BudgetService: the snapshot it holds
    calls,       \* the number of calls made so far
    axisRange,   \* the range handed to generateMonths when the present axis was built
    applying,    \* the applyToAll call whose forEach is under way, or Idle
    frames,      \* the call stack of the call that is being run step by step
    completion   \* what the call that last ended gave its caller, or NoOutcome

vars == <<budgetData, calls, axisRange, applying, frames, completion>>

(***************************************************************************)
(* Bounds of the model.                                                    *)
(***************************************************************************)
\* number of service or component calls explored from the initial state
MaxCalls == 2

\* amounts a caller passes to updateValue
Values == {0, 400, 1000}

\* month keys a caller passes
MonthKeys == {"2025-01", "2025-02"}

\* names typed into the prompt
NameSideJob == <<"S", "i", "d", "e", " ", "J", "o", "b">>
NameSideJobSpaced == <<"s", "i", "d", "e", " ", " ", "j", "o", "b">>
Names == {NameSideJob, NameSideJobSpaced}

Types == {"income", "expense"}

\* an id that no row ever has
GhostId == "no-such-id"

\* start and end points of the ranges a caller passes
RangeStarts == {<<2025, 1>>, <<2025, 2>>, <<2025, 12>>}
RangeEnds == {<<2025, 3>>, <<2026, 1>>}

(***************************************************************************)
(* JavaScript values and array helpers.                                    *)
(***************************************************************************)
Undefined == "undefined"
TypeError == "TypeError"

NoValues == [k \in {} |-> 0]

\* arr[i], 0-based; undefined outside the array
At(arr, i) == IF i >= 0 /\ i < Len(arr) THEN arr[i + 1] ELSE Undefined

\* arr.findIndex(pred): the first 0-based index whose element satisfies Test, or -1
FindIndex(arr, Test(_)) ==
    LET matches == {i \in 1..Len(arr) : Test(arr[i])}
    IN  IF matches = {} THEN -1
        ELSE (CHOOSE i \in matches : \A j \in matches : i <= j) - 1

\* arr.find(pred): the first element that satisfies Test, or undefined
Find(arr, Test(_)) == At(arr, FindIndex(arr, Test))

\* whether arr.find(pred) is an element (truthy) rather than undefined
Exists(arr, Test(_)) == FindIndex(arr, Test) # -1

\* arr.filter(pred)
Filter(arr, Test(_)) == SelectSeq(arr, Test)

\* arr.splice(start, 0, ...items) on a copy: items inserted before index start
Splice(arr, start, items) ==
    SubSeq(arr, 1, start) \o items \o SubSeq(arr, start + 1, Len(arr))

\* obj.values[key] || 0
ValueOrZero(cat, monthKey) ==
    IF monthKey \in DOMAIN cat.values THEN cat.values[monthKey] ELSE 0

\* arr.reduce((sum, cat) => sum + (cat.values[monthKey] || 0), 0)
RECURSIVE ReduceSum(_, _)
ReduceSum(arr, monthKey) ==
    IF arr = << >> THEN 0
    ELSE ReduceSum(SubSeq(arr, 1, Len(arr) - 1), monthKey)
             + ValueOrZero(arr[Len(arr)], monthKey)

(***************************************************************************)
(* String conversions.                                                     *)
(***************************************************************************)
UpperCase == <<"A", "B", "C", "D", "E", "F", "G", "H", "I", "J", "K", "L", "M",
               "N", "O", "P", "Q", "R", "S", "T", "U", "V", "W", "X", "Y", "Z">>
LowerCase == <<"a", "b", "c", "d", "e", "f", "g", "h", "i", "j", "k", "l", "m",
               "n", "o", "p", "q", "r", "s", "t", "u", "v", "w", "x", "y", "z">>
WhiteSpace == {" ", "\t", "\n"}

\* the characters of a name joined into one string
RECURSIVE Join(_)
Join(chars) ==
    IF chars = << >> THEN "" ELSE chars[1] \o Join(Tail(chars))

\* name.toLocaleLowerCase()
ToLowerCase(chars) ==
    [i \in 1..Len(chars) |->
        IF \E u \in 1..Len(UpperCase) : UpperCase[u] = chars[i]
        THEN LowerCase[CHOOSE u \in 1..Len(UpperCase) : UpperCase[u] = chars[i]]
        ELSE chars[i]]

\* str.replace(/\s+/g, '-'): every maximal run of whitespace becomes one '-'
RECURSIVE ReplaceWhiteSpace(_)
ReplaceWhiteSpace(chars) ==
    IF chars = << >> THEN << >>
    ELSE IF chars[1] \in WhiteSpace
         THEN IF Len(chars) > 1 /\ chars[2] \in WhiteSpace
              THEN ReplaceWhiteSpace(Tail(chars))
              ELSE <<"-">> \o ReplaceWhiteSpace(Tail(chars))
         ELSE <<chars[1]>> \o ReplaceWhiteSpace(Tail(chars))

\* name.toLocaleLowerCase().replace(/\s+/g, '-')
Slug(name) == Join(ReplaceWhiteSpace(ToLowerCase(name)))

\* n.toString().padStart(2, '0')
PadStart2(n) == IF Len(ToString(n)) < 2 THEN "0" \o ToString(n) ELSE ToString(n)

MonthNames == <<"January", "February", "March", "April", "May", "June", "July",
                "August", "September", "October", "November", "December">>

(***************************************************************************)
(* The month axis.                                                         *)
(***************************************************************************)
MonthRange(start, end) ==
    [startYear |-> start[1], startMonth |-> start[2],
     endYear |-> end[1], endMonth |-> end[2]]

BudgetMonth(year, month) ==
    [key |-> ToString(year) \o "-" \o PadStart2(month),
     label |-> MonthNames[month] \o " " \o ToString(year),
     year |-> year,
     month |-> month]

\* the while loop of generateMonths, from (currentYear, currentMonth) on
RECURSIVE GenerateMonthsFrom(_, _, _, _)
GenerateMonthsFrom(monthRange, currentYear, currentMonth, months) ==
    IF currentYear < monthRange.endYear
       \/ (currentYear = monthRange.endYear /\ currentMonth <= monthRange.endMonth)
    THEN IF currentMonth + 1 > 12
         THEN GenerateMonthsFrom(monthRange, currentYear + 1, 1,
                                 Append(months, BudgetMonth(currentYear, currentMonth)))
         ELSE GenerateMonthsFrom(monthRange, currentYear, currentMonth + 1,
                                 Append(months, BudgetMonth(currentYear, currentMonth)))
    ELSE months

\* generateMonths whose loop tests `currentMonth < endMonth` in the end year
generateMonthsExclusive(monthRange) ==
    GenerateMonthsFrom([monthRange EXCEPT !.endMonth = @ - 1],
                       monthRange.startYear, monthRange.startMonth, << >>)

generateMonths(monthRange) ==
    GenerateMonthsFrom(monthRange, monthRange.startYear, monthRange.startMonth, << >>)

(***************************************************************************)
(* Categories.                                                             *)
(***************************************************************************)
\* a BudgetCategory; an absent parentId is Undefined, an absent isPlaceholder is FALSE
BudgetCategory(id, name, type, parentId, isParent, isPlaceholder) ==
    [id |-> id, name |-> name, type |-> type, parentId |-> parentId,
     isParent |-> isParent, isPlaceholder |-> isPlaceholder, values |-> NoValues]

\* the default chart of accounts the service is seeded with
defaultCategories ==
    << BudgetCategory("income-general", "General Income", "income", Undefined, TRUE, FALSE),
       BudgetCategory("salary", "Salary", "income", "income-general", FALSE, FALSE),
       BudgetCategory("income-general-placeholder", "Add new General Income Category",
                      "income", "income-general", FALSE, TRUE),
       BudgetCategory("expense-operational", "Operational Expenses", "expense",
                      Undefined, TRUE, FALSE),
       BudgetCategory("rent", "Rent", "expense", "expense-operational", FALSE, FALSE),
       BudgetCategory("expense-operational-placeholder",
                      "Add new Operational Expenses Category",
                      "expense", "expense-operational", FALSE, TRUE) >>

generateDefaultCategories == defaultCategories

\* initializeDefaultData: the snapshot the constructor installs
initializeDefaultData ==
    [categories |-> generateDefaultCategories,
     months |-> generateMonths(MonthRange(<<2025, 1>>, <<2025, 12>>)),
     openingBalance |-> 0]

(***************************************************************************)
(* Mutators of BudgetService, as functions from snapshot to snapshot.      *)
(***************************************************************************)
\* updateValue that builds the values map from the new entry alone, without the spread
updateValueDroppingOthers(data, categoryId, monthKey, value) ==
    LET HasId(cat) == cat.id = categoryId
        categoryIndex == FindIndex(data.categories, HasId)
    IN  IF categoryIndex # -1
        THEN [data EXCEPT !.categories[categoryIndex + 1].values =
                              [k \in {monthKey} |-> value]]
        ELSE data

\* updateValue that adds to the stored amount instead of replacing it
updateValueAccumulating(data, categoryId, monthKey, value) ==
    LET HasId(cat) == cat.id = categoryId
        categoryIndex == FindIndex(data.categories, HasId)
    IN  IF categoryIndex # -1
        THEN LET old == data.categories[categoryIndex + 1]
                 newValues == [k \in (DOMAIN old.values) \cup {monthKey} |->
                                  IF k = monthKey
                                  THEN ValueOrZero(old, monthKey) + value
                                  ELSE old.values[k]]
             IN  [data EXCEPT !.categories[categoryIndex + 1].values = newValues]
        ELSE data

updateValue(data, categoryId, monthKey, value) ==
    LET HasId(cat) == cat.id = categoryId
        categoryIndex == FindIndex(data.categories, HasId)
    IN  IF categoryIndex # -1
        THEN LET old == data.categories[categoryIndex + 1]
                 newValues == [k \in (DOMAIN old.values) \cup {monthKey} |->
                                  IF k = monthKey THEN value ELSE old.values[k]]
             IN  [data EXCEPT !.categories[categoryIndex + 1].values = newValues]
        ELSE data

\* the forEach of applyToAll over the months captured at its start
RECURSIVE ApplyToMonths(_, _, _, _)
ApplyToMonths(data, categoryId, months, value) ==
    IF months = << >> THEN data
    ELSE ApplyToMonths(updateValue(data, categoryId, months[1].key, value),
                       categoryId, Tail(months), value)

\* applyToAll that tests the stored amount for truthiness instead of `!== undefined`
applyToAllIfTruthy(data, categoryId, monthKey) ==
    LET HasId(cat) == cat.id = categoryId
        category == Find(data.categories, HasId)
    IN  IF Exists(data.categories, HasId) /\ ValueOrZero(category, monthKey) # 0
        THEN ApplyToMonths(data, categoryId, data.months, category.values[monthKey])
        ELSE data

applyToAll(data, categoryId, monthKey) ==
    LET HasId(cat) == cat.id = categoryId
        category == Find(data.categories, HasId)
    IN  IF Exists(data.categories, HasId) /\ monthKey \in DOMAIN category.values
        THEN ApplyToMonths(data, categoryId, data.months, category.values[monthKey])
        ELSE data

\* the for loop of addNewCategory that looks for the last child of the parent
RECURSIVE ScanInsertIndex(_, _, _, _, _)
ScanInsertIndex(updatedCategories, parentId, type, i, insertIndex) ==
    IF i < Len(updatedCategories)
    THEN IF At(updatedCategories, i).parentId = parentId
         THEN ScanInsertIndex(updatedCategories, parentId, type, i + 1, i)
         ELSE IF At(updatedCategories, i).isParent /\ At(updatedCategories, i).type = type
              THEN insertIndex
              ELSE ScanInsertIndex(updatedCategories, parentId, type, i + 1, insertIndex)
    ELSE insertIndex

\* NewRows whose placeholder keeps the parentId the caller gave
NewRowsUnderGivenParent(parentId, name, type, isParent) ==
    IF isParent
    THEN << BudgetCategory(type \o "-" \o Slug(name), Join(name), type,
                           Undefined, isParent, FALSE),
            BudgetCategory(type \o "-" \o Slug(name) \o "-placeholder",
                           "Add new " \o Join(name) \o " Category", type,
                           parentId, FALSE, TRUE) >>
    ELSE << BudgetCategory("new-" \o Slug(name), Join(name), type,
                           parentId, isParent, FALSE) >>

\* the rows addNewCategory builds: the new row alone, or the new parent and its placeholder
NewRows(parentId, name, type, isParent) ==
    IF isParent
    THEN << BudgetCategory(type \o "-" \o Slug(name), Join(name), type,
                           Undefined, isParent, FALSE),
            BudgetCategory(type \o "-" \o Slug(name) \o "-placeholder",
                           "Add new " \o Join(name) \o " Category", type,
                           type \o "-" \o Slug(name), FALSE, TRUE) >>
    ELSE << BudgetCategory("new-" \o Slug(name), Join(name), type,
                           parentId, isParent, FALSE) >>

\* addNewCategory without the `parentIndex !== -1` test: an unknown parent gets the rows appended
addNewCategoryAppending(data, parentId, name, type, isParent) ==
    LET HasId(cat) == cat.id = parentId
        parentIndex == FindIndex(data.categories, HasId)
        insertIndex == IF parentIndex # -1
                       THEN ScanInsertIndex(data.categories, parentId, type,
                                            parentIndex + 1, parentIndex)
                       ELSE Len(data.categories)
    IN  [data EXCEPT !.categories =
             Splice(data.categories, insertIndex, NewRows(parentId, name, type, isParent))]

addNewCategory(data, parentId, name, type, isParent) ==
    LET HasId(cat) == cat.id = parentId
        parentIndex == FindIndex(data.categories, HasId)
    IN  IF parentIndex # -1
        THEN LET insertIndex == ScanInsertIndex(data.categories, parentId, type,
                                                parentIndex + 1, parentIndex)
             IN  [data EXCEPT !.categories =
                      Splice(data.categories, insertIndex,
                             NewRows(parentId, name, type, isParent))]
        ELSE data

deleteCategory(data, categoryId) ==
    LET Keep(cat) == cat.id # categoryId
    IN  [data EXCEPT !.categories = Filter(data.categories, Keep)]

\* updateMonthRange that also drops the amounts stored at keys off the new axis
updateMonthRangePruning(data, monthRange) ==
    LET months == generateMonths(monthRange)
        keys == {months[i].key : i \in 1..Len(months)}
        Pruned(cat) == [cat EXCEPT !.values = [k \in (DOMAIN cat.values) \cap keys |->
                                                  cat.values[k]]]
    IN  [data EXCEPT !.months = months,
                     !.categories = [i \in 1..Len(data.categories) |->
                                        Pruned(data.categories[i])]]

updateMonthRange(data, monthRange) ==
    [data EXCEPT !.months = generateMonths(monthRange)]

(***************************************************************************)
(* Rollup queries of BudgetService, over a snapshot.                       *)
(***************************************************************************)
\* getSubTotal that also counts placeholder children
getSubTotalWithPlaceholders(data, categoryId, monthKey) ==
    LET HasId(cat) == cat.id = categoryId
        IsChild(cat) == cat.parentId = categoryId
    IN  IF Exists(data.categories, HasId) /\ Find(data.categories, HasId).isParent
        THEN ReduceSum(Filter(data.categories, IsChild), monthKey)
        ELSE 0

getSubTotal(data, categoryId, monthKey) ==
    LET HasId(cat) == cat.id = categoryId
        IsChild(cat) == cat.parentId = categoryId /\ ~cat.isPlaceholder
    IN  IF Exists(data.categories, HasId) /\ Find(data.categories, HasId).isParent
        THEN ReduceSum(Filter(data.categories, IsChild), monthKey)
        ELSE 0

\* getTotal without the `cat.type === type` test
getTotalOfAnyType(data, type, monthKey) ==
    LET IsLeaf(cat) == ~cat.isParent /\ ~cat.isPlaceholder
        filteredCategories == Filter(data.categories, IsLeaf)
    IN  ReduceSum(filteredCategories, monthKey)

\* getTotal that only counts leaves whose parentId resolves to a row
getTotalOfResolved(data, type, monthKey) ==
    LET IsLeaf(cat) ==
            /\ cat.type = type /\ ~cat.isParent /\ ~cat.isPlaceholder
            /\ \E i \in 1..Len(data.categories) : data.categories[i].id = cat.parentId
        filteredCategories == Filter(data.categories, IsLeaf)
    IN  ReduceSum(filteredCategories, monthKey)

\* getTotal that also counts placeholder rows
getTotalWithPlaceholders(data, type, monthKey) ==
    LET IsLeaf(cat) == cat.type = type /\ ~cat.isParent
        filteredCategories == Filter(data.categories, IsLeaf)
    IN  ReduceSum(filteredCategories, monthKey)

getTotal(data, type, monthKey) ==
    LET IsLeaf(cat) == cat.type = type /\ ~cat.isParent /\ ~cat.isPlaceholder
        filteredCategories == Filter(data.categories, IsLeaf)
    IN  ReduceSum(filteredCategories, monthKey)

\* getProfitLoss that adds the expenses
getProfitLossAdding(data, monthKey) ==
    LET income == getTotal(data, "income", monthKey)
        expenses == getTotal(data, "expense", monthKey)
    IN  income + expenses

getProfitLoss(data, monthKey) ==
    LET income == getTotal(data, "income", monthKey)
        expenses == getTotal(data, "expense", monthKey)
    IN  income - expenses

\* the outcome of a call: the number it returns, or the error it throws
Returns(n) == [returns |-> n]
Throws(e) == [throws |-> e]
Returned(outcome) == "returns" \in DOMAIN outcome

RECURSIVE getOpeningBalance(_, _)
RECURSIVE getClosingBalance(_, _)

\* getOpeningBalance that carries the opening, not the closing, balance of the month before
getOpeningBalanceNotCarrying(data, monthKey) ==
    LET HasKey(month) == month.key = monthKey
        monthIndex == FindIndex(data.months, HasKey)
    IN  IF monthIndex = 0
        THEN Returns(data.openingBalance)
        ELSE IF monthIndex - 1 >= 0 /\ monthIndex - 1 < Len(data.months)
             THEN getOpeningBalance(data, At(data.months, monthIndex - 1).key)
             ELSE Throws(TypeError)

\* months[monthIndex - 1].key throws a TypeError when that element is undefined
getOpeningBalance(data, monthKey) ==
    LET HasKey(month) == month.key = monthKey
        monthIndex == FindIndex(data.months, HasKey)
    IN  IF monthIndex = 0
        THEN Returns(data.openingBalance)
        ELSE IF monthIndex - 1 >= 0 /\ monthIndex - 1 < Len(data.months)
             THEN getClosingBalance(data, At(data.months, monthIndex - 1).key)
             ELSE Throws(TypeError)

getClosingBalance(data, monthKey) ==
    LET openingBalance == getOpeningBalance(data, monthKey)
        profitLoss == getProfitLoss(data, monthKey)
    IN  IF Returned(openingBalance)
        THEN Returns(openingBalance.returns + profitLoss)
        ELSE openingBalance

(***************************************************************************)
(* Category creation in BudgetTableComponent.                              *)
(***************************************************************************)
\* the name prompt() returns when it is cancelled or left empty
NoName == << >>

\* isExistName that compares a row's parentId with the id of the current category
isExistNameUnderCurrent(data, name, currentCategory) ==
    \E i \in 1..Len(data.categories) :
        LET cat == data.categories[i]
        IN  /\ cat.name = Join(name)
            /\ cat.parentId = currentCategory.id
            /\ cat.isParent = currentCategory.isParent
            /\ cat.type = currentCategory.type

isExistName(data, name, currentCategory) ==
    \E i \in 1..Len(data.categories) :
        LET cat == data.categories[i]
        IN  /\ cat.name = Join(name)
            /\ cat.parentId = currentCategory.parentId
            /\ cat.isParent = currentCategory.isParent
            /\ cat.type = currentCategory.type

\* createNewCategory(category) with `name` typed into the prompt
createNewCategory(data, category, name) ==
    LET HasId(cat) == cat.id = category.id
        currentCategory == Find(data.categories, HasId)
        isParentCategory == currentCategory.parentId = Undefined /\ currentCategory.isParent
        parentId == IF isParentCategory THEN category.id ELSE currentCategory.parentId
    IN  IF (~category.isParent /\ ~category.isPlaceholder) \/ ~category.isPlaceholder
        THEN data
        ELSE IF ~Exists(data.categories, HasId) THEN data
        ELSE IF name = NoName THEN data
        ELSE IF isExistName(data, name, currentCategory) THEN data
        ELSE IF parentId # Undefined
             THEN addNewCategory(data, parentId, name, currentCategory.type, isParentCategory)
             ELSE data

(***************************************************************************)
(* Row navigation in BudgetTableComponent.  A handler computes the row to  *)
(* move to and hands focusInput a selector built from that row's id; what  *)
(* it yields here is the sequence of selectors it hands to focusInput.     *)
(***************************************************************************)
\* `input[data-category="<id>"]`
DataCategory(id) == "input[data-category=\"" \o id \o "\"]"

\* `input[data-tabindex="<id + monthIndex>"]`
DataTabIndex(id, monthIndex) ==
    "input[data-tabindex=\"" \o id \o ToString(monthIndex) \o "\"]"

\* nextCategory of the two next-row handlers, as a 0-based index; -1 when undefined
NextCategoryIndex(data, currentCategoryId) ==
    LET HasId(cat) == cat.id = currentCategoryId
        currentIndex == FindIndex(data.categories, HasId)
        nextCategory == At(data.categories, currentIndex + 1)
        found == {index \in 0..(Len(data.categories) - 1) :
                      /\ index > currentIndex
                      /\ ~At(data.categories, index).isPlaceholder
                      /\ ~At(data.categories, index).isParent}
    IN  IF currentIndex + 1 >= 0 /\ currentIndex + 1 < Len(data.categories)
        THEN IF nextCategory.isParent \/ nextCategory.isPlaceholder
             THEN IF found = {} THEN -1
                  ELSE CHOOSE index \in found : \A other \in found : index <= other
             ELSE currentIndex + 1
        ELSE -1

moveToNextRow(data, currentCategoryId) ==
    LET next == NextCategoryIndex(data, currentCategoryId)
    IN  IF next # -1 THEN << DataCategory(At(data.categories, next).id) >> ELSE << >>

moveToNextRowSameMonth(data, currentCategoryId, monthIndex) ==
    LET next == NextCategoryIndex(data, currentCategoryId)
    IN  IF next # -1 THEN << DataTabIndex(At(data.categories, next).id, monthIndex) >>
        ELSE << >>

\* previousCategory of moveToPreviousRowSameMonth, as a 0-based index; -1 when undefined;
\* find() returns the first row before currentIndex that passes the test
PreviousCategoryIndex(data, currentCategoryId) ==
    LET HasId(cat) == cat.id = currentCategoryId
        currentIndex == FindIndex(data.categories, HasId)
        previousCategory == At(data.categories, currentIndex - 1)
        found == {index \in 0..(Len(data.categories) - 1) :
                      /\ index < currentIndex
                      /\ ~At(data.categories, index).isPlaceholder
                      /\ ~At(data.categories, index).isParent}
    IN  IF currentIndex - 1 >= 0 /\ currentIndex - 1 < Len(data.categories)
        THEN IF previousCategory.isParent \/ previousCategory.isPlaceholder
             THEN IF found = {} THEN -1
                  ELSE CHOOSE index \in found : \A other \in found : index <= other
             ELSE currentIndex - 1
        ELSE -1

moveToPreviousRowSameMonth(data, currentCategoryId, monthIndex) ==
    LET previous == PreviousCategoryIndex(data, currentCategoryId)
    IN  IF previous # -1
        THEN << DataTabIndex(At(data.categories, previous).id, monthIndex) >>
        ELSE << >>

(***************************************************************************)
(* The specification.                                                      *)
(***************************************************************************)
RowIds == {budgetData.categories[i].id : i \in 1..Len(budgetData.categories)}

\* the types of the rows with the given id; some type when there is no such row
TypesOfId(id) ==
    IF \E i \in 1..Len(budgetData.categories) : budgetData.categories[i].id = id
    THEN {budgetData.categories[i].type :
              i \in {j \in 1..Len(budgetData.categories) : budgetData.categories[j].id = id}}
    ELSE {"income"}

\* no applyToAll call is under way
Idle == [months |-> << >>]

\* no call has ended yet, or one is under way
NoOutcome == [pending |-> TRUE]

Init ==
    /\ budgetData = initializeDefaultData
    /\ calls = 0
    /\ axisRange = MonthRange(<<2025, 1>>, <<2025, 12>>)
    /\ applying = Idle
    /\ frames = << >>
    /\ completion = NoOutcome

\* the cells a caller edits, as <<month key, amount>>: every cell of a leaf row (and of
\* an id no row has); one cell of a parent or placeholder row, whose amounts enter no rollup
Edits(categoryId) ==
    IF \E i \in 1..Len(budgetData.categories) :
           /\ budgetData.categories[i].id = categoryId
           /\ budgetData.categories[i].isParent \/ budgetData.categories[i].isPlaceholder
    THEN {<<"2025-02", 400>>}
    ELSE MonthKeys \X Values

UpdateValue ==
    \E categoryId \in RowIds \cup {GhostId} : \E edit \in Edits(categoryId) :
        /\ calls < MaxCalls
        /\ applying = Idle
        /\ budgetData' = updateValue(budgetData, categoryId, edit[1], edit[2])
        /\ calls' = calls + 1
        /\ UNCHANGED <<axisRange, applying, frames, completion>>

ApplyToAll ==
    \E categoryId \in RowIds \cup {GhostId}, monthKey \in MonthKeys :
        /\ calls < MaxCalls
        /\ applying = Idle
        /\ budgetData' = applyToAll(budgetData, categoryId, monthKey)
        /\ calls' = calls + 1
        /\ UNCHANGED <<axisRange, applying, frames, completion>>

DeleteCategory ==
    \E categoryId \in RowIds \cup {GhostId} :
        /\ calls < MaxCalls
        /\ applying = Idle
        /\ budgetData' = deleteCategory(budgetData, categoryId)
        /\ calls' = calls + 1
        /\ UNCHANGED <<axisRange, applying, frames, completion>>

UpdateMonthRange ==
    \E start \in RangeStarts, end \in RangeEnds :
        /\ calls < MaxCalls
        /\ applying = Idle
        /\ budgetData' = updateMonthRange(budgetData, MonthRange(start, end))
        /\ axisRange' = MonthRange(start, end)
        /\ calls' = calls + 1
        /\ UNCHANGED <<applying, frames, completion>>

\* a direct caller passes the type of the row it names as parent, as the component does
AddNewCategory ==
    \E parentId \in RowIds \cup {GhostId}, isParent \in BOOLEAN :
      \E type \in TypesOfId(parentId) :
        LET name == NameSideJob IN
        /\ calls < MaxCalls
        /\ applying = Idle
        /\ budgetData' = addNewCategory(budgetData, parentId, name, type, isParent)
        /\ calls' = calls + 1
        /\ UNCHANGED <<axisRange, applying, frames, completion>>

CreateNewCategory ==
    \E i \in 1..Len(budgetData.categories), name \in Names \cup {NoName} :
        /\ calls < MaxCalls
        /\ applying = Idle
        /\ budgetData' = createNewCategory(budgetData, budgetData.categories[i], name)
        /\ calls' = calls + 1
        /\ UNCHANGED <<axisRange, applying, frames, completion>>

Next ==
    \/ UpdateValue
    \/ ApplyToAll
    \/ AddNewCategory
    \/ CreateNewCategory
    \/ DeleteCategory
    \/ UpdateMonthRange

Spec == Init /\ [][Next]_vars

(***************************************************************************)
(* The service at the grain of budgetData.set.  Every mutator but          *)
(* applyToAll calls set once, so its action is the one above.  applyToAll  *)
(* reads the snapshot and the amount once, then calls updateValue for each *)
(* month of the axis it read, and every one of those calls set: the call   *)
(* is one step that captures what it read and one step per month.  The     *)
(* handler runs to completion before another call starts.                  *)
(***************************************************************************)
ApplyToAllCall ==
    \E categoryId \in RowIds \cup {GhostId}, monthKey \in MonthKeys :
        LET HasId(cat) == cat.id = categoryId
            category == Find(budgetData.categories, HasId)
        IN  /\ calls < MaxCalls
            /\ applying = Idle
            /\ applying' =
                   IF /\ Exists(budgetData.categories, HasId)
                      /\ monthKey \in DOMAIN category.values
                      /\ budgetData.months # << >>
                   THEN [categoryId |-> categoryId, monthKey |-> monthKey,
                         value |-> category.values[monthKey],
                         months |-> budgetData.months, before |-> budgetData]
                   ELSE Idle
            /\ calls' = calls + 1
            /\ UNCHANGED <<budgetData, axisRange, frames, completion>>

\* one iteration of the forEach: updateValue(categoryId, month.key, value)
ApplyToAllUpdateValue ==
    /\ applying # Idle
    /\ budgetData' = updateValue(budgetData, applying.categoryId,
                                 applying.months[1].key, applying.value)
    /\ applying' = IF Len(applying.months) = 1 THEN Idle
                   ELSE [applying EXCEPT !.months = Tail(applying.months)]
    /\ UNCHANGED <<calls, axisRange, frames, completion>>

NextSets ==
    \/ UpdateValue
    \/ ApplyToAllCall
    \/ ApplyToAllUpdateValue
    \/ AddNewCategory
    \/ CreateNewCategory
    \/ DeleteCategory
    \/ UpdateMonthRange

SpecSets == Init /\ [][NextSets]_vars

(***************************************************************************)
(* The month axis on its own: updateMonthRange, the one public entry to    *)
(* generateMonths, called with every range between two points of a grid of *)
(* years and months, inverted ranges included.                             *)
(***************************************************************************)
AxisYears == {2024, 2025, 2026}
AxisMonths == {1, 2, 6, 11, 12}
AxisPoints == AxisYears \X AxisMonths

UpdateMonthRangeAny ==
    \E start \in AxisPoints, end \in AxisPoints :
        /\ calls < MaxCalls
        /\ applying = Idle
        /\ budgetData' = updateMonthRange(budgetData, MonthRange(start, end))
        /\ axisRange' = MonthRange(start, end)
        /\ calls' = calls + 1
        /\ UNCHANGED <<applying, frames, completion>>

SpecMonths == Init /\ [][UpdateMonthRangeAny]_vars


(***************************************************************************)
(* Vocabulary of the properties.                                           *)
(***************************************************************************)
Rows(data) == 1..Len(data.categories)

AxisKeys(data) == {data.months[i].key : i \in 1..Len(data.months)}

StoredKeys(data) == UNION {DOMAIN data.categories[i].values : i \in Rows(data)}

\* a month key that is never on an axis
OffAxisKey == "2024-12"

\* the month keys the properties query: those a caller passes, every key with a
\* stored amount, the first and the last month of the axis, and one key off the axis
QueryKeys ==
    MonthKeys \cup StoredKeys(budgetData) \cup {OffAxisKey}
        \cup {budgetData.months[i].key :
                  i \in {1, Len(budgetData.months)} \cap (1..Len(budgetData.months))}

\* the ids the properties query
QueryIds == RowIds \cup {GhostId}

\* the stored amount of row i at month key m, 0 when none is stored
Amount(data, i, m) ==
    IF m \in DOMAIN data.categories[i].values THEN data.categories[i].values[m] ELSE 0

\* the sum of the amounts at m over a set of rows
RECURSIVE SumOfRows(_, _, _)
SumOfRows(data, rows, m) ==
    IF rows = {} THEN 0
    ELSE LET i == CHOOSE i \in rows : TRUE
         IN  Amount(data, i, m) + SumOfRows(data, rows \ {i}, m)

\* rows with the given id, and the first of them
RowsWithId(data, id) == {i \in Rows(data) : data.categories[i].id = id}
FirstRowWithId(data, id) ==
    CHOOSE i \in RowsWithId(data, id) : \A j \in RowsWithId(data, id) : i <= j

IsLeafRow(data, i) ==
    ~data.categories[i].isParent /\ ~data.categories[i].isPlaceholder

(***************************************************************************)
(* C1: for every category id c and month key m, getSubTotal(c, m) is 0     *)
(* when the first row with id c is absent or is not a parent, and is       *)
(* otherwise the sum of the stored amounts at m (0 when none) over exactly *)
(* the rows whose parentId is c and that are not placeholders.             *)
(***************************************************************************)
C1_SubTotal ==
    \A c \in QueryIds, m \in QueryKeys :
        getSubTotal(budgetData, c, m) =
            IF RowsWithId(budgetData, c) = {}
               \/ ~budgetData.categories[FirstRowWithId(budgetData, c)].isParent
            THEN 0
            ELSE SumOfRows(budgetData,
                           {i \in Rows(budgetData) :
                                /\ budgetData.categories[i].parentId = c
                                /\ ~budgetData.categories[i].isPlaceholder},
                           m)

\* a parent whose subtotal is not 0 while its placeholder child holds an amount too
C1_Witness ==
    \E p \in Rows(budgetData), h \in Rows(budgetData), m \in MonthKeys :
        /\ budgetData.categories[p].isParent
        /\ budgetData.categories[h].isPlaceholder
        /\ budgetData.categories[h].parentId = budgetData.categories[p].id
        /\ Amount(budgetData, h, m) # 0
        /\ getSubTotal(budgetData, budgetData.categories[p].id, m) # 0

(***************************************************************************)
(* C2: the balance chain.  The opening balance of the first month of the   *)
(* axis is the stored openingBalance, and the opening balance of every     *)
(* later month is the closing balance of the month just before it; with    *)
(* Salary 1000 and Rent 400 the only amounts of 2025-01, the first month,  *)
(* the opening balance of a second month 2025-02 is 600.                   *)
(***************************************************************************)
C2_BalanceChain ==
    /\ \A i \in 1..Len(budgetData.months) :
           LET opening == getOpeningBalance(budgetData, budgetData.months[i].key)
           IN  IF i = 1
               THEN opening = Returns(budgetData.openingBalance)
               ELSE /\ Returned(opening)
                    /\ opening = getClosingBalance(budgetData, budgetData.months[i - 1].key)
    /\ ( /\ Len(budgetData.months) >= 2
         /\ budgetData.months[1].key = "2025-01"
         /\ budgetData.months[2].key = "2025-02"
         /\ budgetData.openingBalance = 0
         /\ \A i \in Rows(budgetData) :
                IsLeafRow(budgetData, i) =>
                    Amount(budgetData, i, "2025-01") =
                        IF budgetData.categories[i].id = "salary" THEN 1000
                        ELSE IF budgetData.categories[i].id = "rent" THEN 400
                        ELSE 0
         /\ RowsWithId(budgetData, "salary") # {}
         /\ RowsWithId(budgetData, "rent") # {} )
       => getOpeningBalance(budgetData, "2025-02") = Returns(600)

\* Salary 1000 and Rent 400 in 2025-01, and the second month opens at 600
C2_Witness ==
    /\ Len(budgetData.months) >= 2
    /\ \E s \in Rows(budgetData), r \in Rows(budgetData) :
           /\ budgetData.categories[s].id = "salary"
           /\ budgetData.categories[r].id = "rent"
           /\ Amount(budgetData, s, "2025-01") = 1000
           /\ Amount(budgetData, r, "2025-01") = 400
    /\ getOpeningBalance(budgetData, budgetData.months[2].key) = Returns(600)

(***************************************************************************)
(* C3: profit/loss conservation.  For every month of the axis the closing  *)
(* balance minus the opening balance is the income total minus the expense *)
(* total of that month.                                                    *)
(***************************************************************************)
C3_Conservation ==
    \A m \in AxisKeys(budgetData) :
        LET closing == getClosingBalance(budgetData, m)
            opening == getOpeningBalance(budgetData, m)
        IN  /\ Returned(closing)
            /\ Returned(opening)
            /\ closing.returns - opening.returns
                   = getTotal(budgetData, "income", m) - getTotal(budgetData, "expense", m)

\* a month after the first with both an income and an expense and a changed balance
C3_Witness ==
    \E i \in 2..Len(budgetData.months) :
        LET m == budgetData.months[i].key
        IN  /\ getTotal(budgetData, "income", m) # 0
            /\ getTotal(budgetData, "expense", m) # 0
            /\ getClosingBalance(budgetData, m) # getOpeningBalance(budgetData, m)

(***************************************************************************)
(* C4: for both types and every month key, on the axis or not, getTotal is *)
(* the sum of the stored amounts (0 when none) over exactly the rows of    *)
(* that type that are neither parents nor placeholders, whatever their     *)
(* parentId.                                                               *)
(***************************************************************************)
C4_Total ==
    \A t \in Types, m \in QueryKeys :
        getTotal(budgetData, t, m) =
            SumOfRows(budgetData,
                      {i \in Rows(budgetData) :
                           /\ budgetData.categories[i].type = t
                           /\ IsLeafRow(budgetData, i)},
                      m)

\* a total that is not 0 and comes from a row whose parent row has been deleted
C4_Witness ==
    \E i \in Rows(budgetData), m \in MonthKeys :
        /\ IsLeafRow(budgetData, i)
        /\ RowsWithId(budgetData, budgetData.categories[i].parentId) = {}
        /\ Amount(budgetData, i, m) # 0
        /\ getTotal(budgetData, budgetData.categories[i].type, m) = Amount(budgetData, i, m)

(***************************************************************************)
(* C5: parents and placeholders never contribute to a rollup.  A step that *)
(* is updateValue or applyToAll on the id of a row that is a parent or a   *)
(* placeholder leaves getSubTotal, getTotal and getProfitLoss of every     *)
(* category, type and month key, and getOpeningBalance and                 *)
(* getClosingBalance of every month of the axis, as they were.             *)
(***************************************************************************)
Rollups(data, ids, keys) ==
    [subTotal |-> [c \in ids, m \in keys |-> getSubTotal(data, c, m)],
     total |-> [t \in Types, m \in keys |-> getTotal(data, t, m)],
     profitLoss |-> [m \in keys |-> getProfitLoss(data, m)],
     opening |-> [m \in AxisKeys(data) |-> getOpeningBalance(data, m)],
     closing |-> [m \in AxisKeys(data) |-> getClosingBalance(data, m)]]

IsNonLeafEdit(before, after) ==
    \E i \in Rows(before) :
        /\ before.categories[i].isPlaceholder \/ before.categories[i].isParent
        /\ \/ \E m \in MonthKeys, v \in Values :
                  after = updateValue(before, before.categories[i].id, m, v)
           \/ \E m \in MonthKeys :
                  after = applyToAll(before, before.categories[i].id, m)

C5_NonLeafExcluded ==
    [][ (budgetData' # budgetData /\ IsNonLeafEdit(budgetData, budgetData')) =>
            LET ids == QueryIds
                keys == MonthKeys \cup StoredKeys(budgetData') \cup {OffAxisKey}
            IN  Rollups(budgetData', ids, keys) = Rollups(budgetData, ids, keys)
      ]_vars

\* a parent or placeholder holds an amount in a month of the axis whose total is not 0
C5_Witness ==
    \E i \in Rows(budgetData), m \in AxisKeys(budgetData) :
        /\ budgetData.categories[i].isPlaceholder \/ budgetData.categories[i].isParent
        /\ Amount(budgetData, i, m) # 0
        /\ getTotal(budgetData, budgetData.categories[i].type, m) # 0
        /\ getTotal(budgetData, budgetData.categories[i].type, m) # Amount(budgetData, i, m)

(***************************************************************************)
(* C6: applyToAll(id, m), when the first row with that id has an amount v  *)
(* stored at m, stores v at every month key of the axis and leaves the     *)
(* row's amounts at keys off the axis as they were; when no row has the id *)
(* or that row has no amount stored at m, the snapshot does not change.    *)
(***************************************************************************)
C6_ApplyToAll ==
    \A id \in QueryIds, m \in QueryKeys :
        LET after == applyToAll(budgetData, id, m)
        IN  IF /\ RowsWithId(budgetData, id) # {}
               /\ m \in DOMAIN budgetData.categories[FirstRowWithId(budgetData, id)].values
            THEN LET r == FirstRowWithId(budgetData, id)
                     old == budgetData.categories[r].values
                     new == after.categories[r].values
                 IN  /\ Len(after.categories) = Len(budgetData.categories)
                     /\ DOMAIN new = DOMAIN old \cup AxisKeys(budgetData)
                     /\ \A k \in AxisKeys(budgetData) : new[k] = old[m]
                     /\ \A k \in DOMAIN old \ AxisKeys(budgetData) : new[k] = old[k]
            ELSE after = budgetData

\* the axis is 2025-01..2025-03, Salary has 1000 in 2025-01, and applyToAll fills the rest
C6_Witness ==
    /\ Len(budgetData.months) = 3
    /\ budgetData.months[1].key = "2025-01"
    /\ budgetData.months[3].key = "2025-03"
    /\ \E i \in Rows(budgetData) :
           /\ budgetData.categories[i].id = "salary"
           /\ DOMAIN budgetData.categories[i].values = {"2025-01"}
           /\ budgetData.categories[i].values["2025-01"] = 1000
    /\ LET HasId(cat) == cat.id = "salary"
           after == Find(applyToAll(budgetData, "salary", "2025-01").categories, HasId)
       IN  /\ after.values["2025-02"] = 1000
           /\ after.values["2025-03"] = 1000

(***************************************************************************)
(* C7: applyToAll is idempotent.  For every id and month key, the          *)
(* categories after applyToAll(id, m) twice are the categories after       *)
(* applyToAll(id, m) once.                                                 *)
(***************************************************************************)
C7_ApplyToAllIdempotent ==
    \A id \in QueryIds, m \in QueryKeys :
        LET once == applyToAll(budgetData, id, m)
        IN  applyToAll(once, id, m).categories = once.categories

\* a row with two different amounts on the axis, which applyToAll levels
C7_Witness ==
    \E i \in Rows(budgetData), m \in AxisKeys(budgetData), k \in AxisKeys(budgetData) :
        /\ m \in DOMAIN budgetData.categories[i].values
        /\ k \in DOMAIN budgetData.categories[i].values
        /\ budgetData.categories[i].values[m] # 0
        /\ budgetData.categories[i].values[m] # budgetData.categories[i].values[k]
        /\ applyToAll(budgetData, budgetData.categories[i].id, m) # budgetData

(***************************************************************************)
(* C8: createNewCategory rejects a colliding name.  When the row the       *)
(* request would add has the name, parentId, type and isParent flag of an  *)
(* existing row, the snapshot is left exactly as it was.                   *)
(***************************************************************************)
\* the row a request on `category` with `name` asks for
RequestedRow(data, category, name) ==
    LET cur == data.categories[FirstRowWithId(data, category.id)]
        asParent == cur.parentId = Undefined /\ cur.isParent
    IN  [name |-> Join(name),
         parentId |-> IF asParent THEN Undefined ELSE cur.parentId,
         type |-> cur.type,
         isParent |-> asParent]

Collides(data, category, name) ==
    \E j \in Rows(data) :
        /\ data.categories[j].name = RequestedRow(data, category, name).name
        /\ data.categories[j].parentId = RequestedRow(data, category, name).parentId
        /\ data.categories[j].type = RequestedRow(data, category, name).type
        /\ data.categories[j].isParent = RequestedRow(data, category, name).isParent

C8_NameCollisionRejected ==
    \A i \in Rows(budgetData), name \in Names :
        Collides(budgetData, budgetData.categories[i], name) =>
            createNewCategory(budgetData, budgetData.categories[i], name) = budgetData

\* a placeholder under which one of the names is taken and the other is still free
C8_Witness ==
    \E i \in Rows(budgetData), taken \in Names, free \in Names :
        /\ budgetData.categories[i].isPlaceholder
        /\ Collides(budgetData, budgetData.categories[i], taken)
        /\ ~Collides(budgetData, budgetData.categories[i], free)
        /\ createNewCategory(budgetData, budgetData.categories[i], free) # budgetData

(***************************************************************************)
(* C9: every row id is unique: no two rows of the categories list have the *)
(* same id.  (The code derives the id from the name alone, so this fails.) *)
(***************************************************************************)
C9_UniqueIds ==
    \A i \in Rows(budgetData), j \in Rows(budgetData) :
        i # j => budgetData.categories[i].id # budgetData.categories[j].id

(***************************************************************************)
(* C10: deleteCategory(id), for the id of a row, removes exactly one row,  *)
(* the one with that id, keeps every other row as it is and in order, and  *)
(* leaves months and openingBalance unchanged.  (With two rows of one id,  *)
(* see C9, both are removed.)                                              *)
(***************************************************************************)
C10_DeleteRemovesOne ==
    \A id \in RowIds :
        LET after == deleteCategory(budgetData, id)
            r == FirstRowWithId(budgetData, id)
        IN  /\ Len(after.categories) = Len(budgetData.categories) - 1
            /\ after.categories =
                   SubSeq(budgetData.categories, 1, r - 1)
                       \o SubSeq(budgetData.categories, r + 1, Len(budgetData.categories))
            /\ after.months = budgetData.months
            /\ after.openingBalance = budgetData.openingBalance


(***************************************************************************)
(* C11: a mutator called with an id that matches no row is a no-op.  For   *)
(* every id that no row has, updateValue, applyToAll, addNewCategory (the  *)
(* id as parentId) and deleteCategory each return the snapshot they were   *)
(* given: categories, months and openingBalance as before.  (The mutators  *)
(* are total here: none of their paths for an unknown id dereferences a    *)
(* missing row, so none raises.)                                           *)
(***************************************************************************)
SeedIds == {defaultCategories[i].id : i \in 1..Len(defaultCategories)}

\* ids that no row has: one that never existed, and those of deleted rows
UnknownIds == ({GhostId} \cup SeedIds) \ RowIds

C11_UnknownIdNoOp ==
    \A id \in UnknownIds :
        /\ \A m \in MonthKeys, v \in Values :
               updateValue(budgetData, id, m, v) = budgetData
        /\ \A m \in QueryKeys : applyToAll(budgetData, id, m) = budgetData
        /\ \A t \in Types, isParent \in BOOLEAN :
               addNewCategory(budgetData, id, NameSideJob, t, isParent) = budgetData
        /\ deleteCategory(budgetData, id) = budgetData

\* the id of a deleted parent that a remaining row with an amount still names as parentId
C11_Witness ==
    \E id \in UnknownIds \ {GhostId}, i \in Rows(budgetData), m \in MonthKeys :
        /\ budgetData.categories[i].parentId = id
        /\ Amount(budgetData, i, m) # 0
        /\ addNewCategory(budgetData, id, NameSideJob, budgetData.categories[i].type, FALSE)
               = budgetData


(***************************************************************************)
(* C12: generateMonths(range) is exactly the calendar months from          *)
(* (startYear, startMonth) to (endYear, endMonth) inclusive: as many       *)
(* months as lie between the two, each the calendar successor of the one   *)
(* before it (December followed by January of the next year), the first    *)
(* being the start, and none when the end is before the start, as for      *)
(* start 2025-06 and end 2025-01.                                          *)
(***************************************************************************)
\* the number of the calendar month (year, month), counting months from year 0
Ordinal(year, month) == year * 12 + (month - 1)

C12_GenerateMonths ==
    LET months == budgetData.months
        first == Ordinal(axisRange.startYear, axisRange.startMonth)
        last == Ordinal(axisRange.endYear, axisRange.endMonth)
    IN  /\ Len(months) = IF last < first THEN 0 ELSE last - first + 1
        /\ \A i \in 1..Len(months) :
               /\ months[i].month \in 1..12
               /\ Ordinal(months[i].year, months[i].month) = first + (i - 1)
        /\ axisRange = MonthRange(<<2025, 6>>, <<2025, 1>>) => months = << >>

\* an axis from November 2025 to February 2026, which steps from month 12 to month 1
C12_Witness ==
    /\ axisRange = MonthRange(<<2025, 11>>, <<2026, 2>>)
    /\ Len(budgetData.months) = 4
    /\ budgetData.months[2].year = 2025 /\ budgetData.months[2].month = 12
    /\ budgetData.months[3].year = 2026 /\ budgetData.months[3].month = 1


(***************************************************************************)
(* C13: updateMonthRange changes only the months.  For every range a       *)
(* caller passes, inverted ones included, the categories list after the    *)
(* call (rows, order and every stored amount, also those at month keys     *)
(* that are not on the new axis) and openingBalance are what they were     *)
(* before it.                                                              *)
(***************************************************************************)
C13_MonthRangeFrame ==
    \A start \in RangeStarts, end \in RangeEnds :
        LET after == updateMonthRange(budgetData, MonthRange(start, end))
        IN  /\ after.categories = budgetData.categories
            /\ after.openingBalance = budgetData.openingBalance

\* an inverted range has emptied the axis while a row still holds an amount
C13_Witness ==
    /\ axisRange = MonthRange(<<2025, 12>>, <<2025, 3>>)
    /\ budgetData.months = << >>
    /\ \E i \in Rows(budgetData), m \in MonthKeys : Amount(budgetData, i, m) # 0


(***************************************************************************)
(* C14: every mutating call replaces the snapshot in one step.  While a    *)
(* call is under way the signal holds either the snapshot the call started *)
(* from or the snapshot the call ends with, never one that differs from    *)
(* both.  (applyToAll calls set once per month of the axis, so this        *)
(* fails.)                                                                 *)
(***************************************************************************)
C14_AtomicReplacement ==
    applying # Idle =>
        \/ budgetData = applying.before
        \/ budgetData = applyToAll(applying.before, applying.categoryId, applying.monthKey)


(***************************************************************************)
(* C15: no rollup query throws.  For every id, type and month key, on the  *)
(* axis or not, and also when the axis is empty, getSubTotal, getTotal and *)
(* getProfitLoss are numbers and getOpeningBalance and getClosingBalance   *)
(* return a number.  (getOpeningBalance reads .key of months[-2] for a key *)
(* that is not on the axis, so this fails.)                                *)
(***************************************************************************)
C15_RollupsNeverThrow ==
    \A m \in QueryKeys :
        /\ \A c \in QueryIds : getSubTotal(budgetData, c, m) \in Int
        /\ \A t \in Types : getTotal(budgetData, t, m) \in Int
        /\ getProfitLoss(budgetData, m) \in Int
        /\ Returned(getOpeningBalance(budgetData, m))
        /\ Returned(getClosingBalance(budgetData, m))


(***************************************************************************)
(* C16: addNewCategory with the id of an existing row as parentId places   *)
(* the new rows immediately after the last row whose parentId is that id,  *)
(* among the rows that follow the parent row up to the next isParent row   *)
(* of the same type, or immediately after the parent row when there is no  *)
(* such child.  (The code splices at the index of that row, so the new     *)
(* rows land before it.)                                                   *)
(***************************************************************************)
\* the row the new rows are to follow
InsertAfter(data, parentId, type) ==
    LET parent == FirstRowWithId(data, parentId)
        stops == {i \in (parent + 1)..Len(data.categories) :
                      /\ data.categories[i].parentId # parentId
                      /\ data.categories[i].isParent
                      /\ data.categories[i].type = type}
        stop == IF stops = {} THEN Len(data.categories) + 1
                ELSE CHOOSE i \in stops : \A j \in stops : i <= j
        children == {i \in (parent + 1)..(stop - 1) : data.categories[i].parentId = parentId}
    IN  IF children = {} THEN parent
        ELSE CHOOSE i \in children : \A j \in children : j <= i

C16_InsertedAfterLastChild ==
    \A parentId \in RowIds, isParent \in BOOLEAN :
        \A type \in TypesOfId(parentId) :
            LET after == addNewCategory(budgetData, parentId, NameSideJob, type, isParent)
                last == InsertAfter(budgetData, parentId, type)
            IN  after.categories =
                    SubSeq(budgetData.categories, 1, last)
                        \o NewRows(parentId, NameSideJob, type, isParent)
                        \o SubSeq(budgetData.categories, last + 1, Len(budgetData.categories))


(***************************************************************************)
(* C17: the ordering invariant.  In every reachable state, for every id p  *)
(* that some row names as parentId, there is a row with id p and the rows  *)
(* whose parentId is p are exactly the rows that follow it, one contiguous *)
(* run; a placeholder in that run is its last row.  The seed satisfies     *)
(* this.  (deleteCategory of a parent leaves its children behind, and      *)
(* addNewCategory splices before the row it should follow, see C16.)       *)
(***************************************************************************)
C17_ChildrenContiguous ==
    \A p \in {budgetData.categories[i].parentId : i \in Rows(budgetData)} \ {Undefined} :
        LET children == {i \in Rows(budgetData) : budgetData.categories[i].parentId = p}
        IN  /\ RowsWithId(budgetData, p) # {}
            /\ children = (FirstRowWithId(budgetData, p) + 1)
                              ..(FirstRowWithId(budgetData, p) + Cardinality(children))
            /\ \A i \in children :
                   budgetData.categories[i].isPlaceholder => \A j \in children : j <= i


(***************************************************************************)
(* C18: what addNewCategory adds.  With the id of an existing row as       *)
(* parentId and isParent true it adds exactly two adjacent rows: a parent  *)
(* row (isParent, no parentId, id `<type>-side-job` for either spelling of *)
(* the name) and right after it a placeholder row (isPlaceholder, not      *)
(* isParent, no amounts) whose parentId is the id of the new parent row;   *)
(* with isParent false it adds exactly one row that is neither parent nor  *)
(* placeholder, has no amounts and has the given parentId.  The rows that  *)
(* were there keep their content and order, and months and openingBalance  *)
(* are as before.                                                          *)
(***************************************************************************)
C18_AddedRows ==
    \A parentId \in RowIds, isParent \in BOOLEAN :
        \A type \in TypesOfId(parentId), name \in IF isParent THEN Names ELSE {NameSideJob} :
            LET result == addNewCategory(budgetData, parentId, name, type, isParent)
                before == budgetData.categories
                after == result.categories
                k == IF isParent THEN 2 ELSE 1
            IN  /\ result.months = budgetData.months
                /\ result.openingBalance = budgetData.openingBalance
                /\ Len(after) = Len(before) + k
                /\ \E j \in 0..Len(before) :
                       /\ SubSeq(after, 1, j) = SubSeq(before, 1, j)
                       /\ SubSeq(after, j + k + 1, Len(after))
                              = SubSeq(before, j + 1, Len(before))
                       /\ IF isParent
                          THEN /\ after[j + 1].isParent
                               /\ after[j + 1].parentId = Undefined
                               /\ after[j + 1].id = type \o "-side-job"
                               /\ after[j + 2].isPlaceholder
                               /\ ~after[j + 2].isParent
                               /\ after[j + 2].values = NoValues
                               /\ after[j + 2].parentId = after[j + 1].id
                          ELSE /\ ~after[j + 1].isParent
                               /\ ~after[j + 1].isPlaceholder
                               /\ after[j + 1].values = NoValues
                               /\ after[j + 1].parentId = parentId

\* a new parent with its placeholder has been added after rows were given amounts
C18_Witness ==
    \E i \in Rows(budgetData), j \in Rows(budgetData), m \in MonthKeys :
        /\ i + 1 \in Rows(budgetData)
        /\ budgetData.categories[i].id \notin SeedIds
        /\ budgetData.categories[i].isParent
        /\ budgetData.categories[i + 1].isPlaceholder
        /\ budgetData.categories[i + 1].parentId = budgetData.categories[i].id
        /\ Amount(budgetData, j, m) # 0


(***************************************************************************)
(* C19: in every reachable state, every placeholder row that               *)
(* addNewCategory created (every placeholder that is not of the seed) has  *)
(* a parentId that exactly one row has as id, and that row is a parent.    *)
(* (deleteCategory of the parent leaves the placeholder behind.)           *)
(***************************************************************************)
C19_PlaceholderHasParent ==
    \A i \in Rows(budgetData) :
        (budgetData.categories[i].isPlaceholder /\ budgetData.categories[i].id \notin SeedIds)
            => /\ Cardinality(RowsWithId(budgetData, budgetData.categories[i].parentId)) = 1
               /\ \A p \in RowsWithId(budgetData, budgetData.categories[i].parentId) :
                      budgetData.categories[p].isParent


(***************************************************************************)
(* C20: updateValue(id, m, v) with the id of a row stores v at month key m *)
(* of the first row with that id and changes nothing else: the amounts of  *)
(* that row at every other month key, its other fields, every other row,   *)
(* the order of the rows, months and openingBalance are as before; the     *)
(* amount then read at (id, m) is v.                                       *)
(***************************************************************************)
C20_UpdateValueFrame ==
    \A id \in RowIds, m \in MonthKeys, v \in Values :
        LET after == updateValue(budgetData, id, m, v)
            r == FirstRowWithId(budgetData, id)
            old == budgetData.categories[r]
            new == after.categories[r]
            HasId(cat) == cat.id = id
        IN  /\ after.months = budgetData.months
            /\ after.openingBalance = budgetData.openingBalance
            /\ Len(after.categories) = Len(budgetData.categories)
            /\ \A i \in Rows(budgetData) \ {r} :
                   after.categories[i] = budgetData.categories[i]
            /\ [new EXCEPT !.values = NoValues] = [old EXCEPT !.values = NoValues]
            /\ DOMAIN new.values = DOMAIN old.values \cup {m}
            /\ \A k \in DOMAIN old.values \ {m} : new.values[k] = old.values[k]
            /\ new.values[m] = v
            /\ ValueOrZero(Find(after.categories, HasId), m) = v

\* a row whose amount at one month was stored after, and beside, another month's amount
C20_Witness ==
    \E i \in Rows(budgetData) :
        /\ DOMAIN budgetData.categories[i].values = {"2025-01", "2025-02"}
        /\ budgetData.categories[i].values["2025-01"] = 1000
        /\ budgetData.categories[i].values["2025-02"] = 400


(***************************************************************************)
(* C21: next-row navigation.  From the row at position i, moveToNextRow    *)
(* and moveToNextRowSameMonth focus the input of the first row after i     *)
(* that is neither a parent nor a placeholder, and focus nothing when no   *)
(* such row follows.  (The handlers find the current row by its id, so     *)
(* from the second of two rows with one id, see C9, they start at the      *)
(* first.)                                                                 *)
(***************************************************************************)
\* column indexes the same-month handlers are called with
MonthIndexes == {0, 1}

\* the leaf rows after, and before, position i
LeavesAfter(data, i) == {j \in Rows(data) : j > i /\ IsLeafRow(data, j)}
LeavesBefore(data, i) == {j \in Rows(data) : j < i /\ IsLeafRow(data, j)}

C21_NextRow ==
    \A i \in Rows(budgetData) :
        LET id == budgetData.categories[i].id
            after == LeavesAfter(budgetData, i)
            target == CHOOSE j \in after : \A k \in after : j <= k
        IN  /\ moveToNextRow(budgetData, id) =
                   IF after = {} THEN << >>
                   ELSE << DataCategory(budgetData.categories[target].id) >>
            /\ \A monthIndex \in MonthIndexes :
                   moveToNextRowSameMonth(budgetData, id, monthIndex) =
                       IF after = {} THEN << >>
                       ELSE << DataTabIndex(budgetData.categories[target].id, monthIndex) >>


(***************************************************************************)
(* C22: previous-row navigation.  From the row at position i,              *)
(* moveToPreviousRowSameMonth focuses, in the same month column, the input *)
(* of the nearest row before i that is neither a parent nor a placeholder, *)
(* and focuses nothing when no such row precedes.  (When the row just      *)
(* before is a parent or placeholder the handler takes the first leaf of   *)
(* the list, not the nearest.)                                             *)
(***************************************************************************)
C22_PreviousRow ==
    \A i \in Rows(budgetData), monthIndex \in MonthIndexes :
        LET id == budgetData.categories[i].id
            before == LeavesBefore(budgetData, i)
            target == CHOOSE j \in before : \A k \in before : k <= j
        IN  moveToPreviousRowSameMonth(budgetData, id, monthIndex) =
                IF before = {} THEN << >>
                ELSE << DataTabIndex(budgetData.categories[target].id, monthIndex) >>


(***************************************************************************)
(* C23: the total is the sum of the subtotals.  In every reachable state   *)
(* in which the parentId of each row that is neither parent nor            *)
(* placeholder resolves to exactly one row, a parent of the same type,     *)
(* getTotal(t, m) is the sum of getSubTotal(p.id, m) over the parent rows  *)
(* p of type t, for both types and every month key.                        *)
(***************************************************************************)
\* every leaf has exactly one row with its parentId as id, a parent of the leaf's type
LeavesResolve(data) ==
    \A i \in Rows(data) :
        IsLeafRow(data, i) =>
            /\ Cardinality(RowsWithId(data, data.categories[i].parentId)) = 1
            /\ \A p \in RowsWithId(data, data.categories[i].parentId) :
                   /\ data.categories[p].isParent
                   /\ data.categories[p].type = data.categories[i].type

\* the sum of getSubTotal(p.id, m) over a set of rows
RECURSIVE SumOfSubTotals(_, _, _)
SumOfSubTotals(data, rows, m) ==
    IF rows = {} THEN 0
    ELSE LET p == CHOOSE p \in rows : TRUE
         IN  getSubTotal(data, data.categories[p].id, m)
                 + SumOfSubTotals(data, rows \ {p}, m)

C23_TotalIsSumOfSubTotals ==
    LeavesResolve(budgetData) =>
        \A t \in Types, m \in QueryKeys :
            getTotal(budgetData, t, m) =
                SumOfSubTotals(budgetData,
                               {p \in Rows(budgetData) :
                                    /\ budgetData.categories[p].isParent
                                    /\ budgetData.categories[p].type = t},
                               m)

\* every leaf resolves, and a leaf that was added holds an amount that the total counts
C23_Witness ==
    /\ LeavesResolve(budgetData)
    /\ \E i \in Rows(budgetData), m \in MonthKeys :
           /\ IsLeafRow(budgetData, i)
           /\ budgetData.categories[i].id \notin SeedIds
           /\ Amount(budgetData, i, m) # 0
           /\ getTotal(budgetData, budgetData.categories[i].type, m) = Amount(budgetData, i, m)
           /\ getSubTotal(budgetData, budgetData.categories[i].parentId, m)
                  = Amount(budgetData, i, m)


(***************************************************************************)
(* The balance queries and updateMonthRange, run step by step.  frames is  *)
(* the call stack, the frame of the running function last.  A frame of     *)
(* getOpeningBalance or getClosingBalance holds its monthKey; a frame of   *)
(* generateMonths holds its range and its locals.  A function that ends    *)
(* leaves what it returns or throws in completion, where its caller, the   *)
(* frame below, takes it up.  JavaScript runs a call to its end before the *)
(* next event is handled: no call starts while frames is not empty, and    *)
(* the steps of the running call are taken (weak fairness on Run).         *)
(***************************************************************************)
BalanceFrame(fn, monthKey) == [fn |-> fn, monthKey |-> monthKey]

GenerateMonthsFrame(monthRange, currentYear, currentMonth, months) ==
    [fn |-> "generateMonths", monthRange |-> monthRange,
     currentYear |-> currentYear, currentMonth |-> currentMonth, months |-> months]

Top == frames[Len(frames)]
Pop == SubSeq(frames, 1, Len(frames) - 1)

\* the month keys a caller asks a balance for: every key of the axis, and one off it
CallKeys == AxisKeys(budgetData) \cup {OffAxisKey}

\* findIndex((month) => month.key === monthKey)
MonthIndex(data, monthKey) ==
    LET HasKey(month) == month.key = monthKey
    IN  FindIndex(data.months, HasKey)

\* the index getOpeningBalance reads the month before at, taken as the month's own
PreviousMonthIndexSame(monthIndex) == monthIndex

\* the index getOpeningBalance reads the month before at
PreviousMonthIndex(monthIndex) == monthIndex - 1

GetOpeningBalanceCall ==
    \E monthKey \in CallKeys :
        /\ calls < MaxCalls
        /\ frames = << >>
        /\ frames' = << BalanceFrame("getOpeningBalance", monthKey) >>
        /\ completion' = NoOutcome
        /\ calls' = calls + 1
        /\ UNCHANGED <<budgetData, axisRange, applying>>

GetClosingBalanceCall ==
    \E monthKey \in CallKeys :
        /\ calls < MaxCalls
        /\ frames = << >>
        /\ frames' = << BalanceFrame("getClosingBalance", monthKey) >>
        /\ completion' = NoOutcome
        /\ calls' = calls + 1
        /\ UNCHANGED <<budgetData, axisRange, applying>>

\* getOpeningBalance up to its return or its call of getClosingBalance
GetOpeningBalanceRun ==
    /\ frames # << >>
    /\ Top.fn = "getOpeningBalance"
    /\ completion = NoOutcome
    /\ LET monthIndex == MonthIndex(budgetData, Top.monthKey)
           previousIndex == PreviousMonthIndex(monthIndex)
       IN  IF monthIndex = 0
           THEN /\ frames' = Pop
                /\ completion' = Returns(budgetData.openingBalance)
           ELSE IF previousIndex >= 0 /\ previousIndex < Len(budgetData.months)
                THEN /\ frames' = Append(frames,
                                         BalanceFrame("getClosingBalance",
                                                      At(budgetData.months, previousIndex).key))
                     /\ UNCHANGED completion
                ELSE /\ frames' = Pop
                     /\ completion' = Throws(TypeError)
    /\ UNCHANGED <<budgetData, calls, axisRange, applying>>

\* getOpeningBalance returns what getClosingBalance returned to it
GetOpeningBalanceReturn ==
    /\ frames # << >>
    /\ Top.fn = "getOpeningBalance"
    /\ completion # NoOutcome
    /\ Returned(completion)
    /\ frames' = Pop
    /\ UNCHANGED <<budgetData, calls, axisRange, applying, completion>>

\* getClosingBalance calls getOpeningBalance with its own monthKey
GetClosingBalanceRun ==
    /\ frames # << >>
    /\ Top.fn = "getClosingBalance"
    /\ completion = NoOutcome
    /\ frames' = Append(frames, BalanceFrame("getOpeningBalance", Top.monthKey))
    /\ UNCHANGED <<budgetData, calls, axisRange, applying, completion>>

\* getClosingBalance adds the profit or loss of its month to the opening balance
GetClosingBalanceReturn ==
    /\ frames # << >>
    /\ Top.fn = "getClosingBalance"
    /\ completion # NoOutcome
    /\ Returned(completion)
    /\ frames' = Pop
    /\ completion' = Returns(completion.returns + getProfitLoss(budgetData, Top.monthKey))
    /\ UNCHANGED <<budgetData, calls, axisRange, applying>>

\* a TypeError leaves the frame it reaches: no function catches it
Propagate ==
    /\ frames # << >>
    /\ completion # NoOutcome
    /\ ~Returned(completion)
    /\ frames' = Pop
    /\ UNCHANGED <<budgetData, calls, axisRange, applying, completion>>

\* updateMonthRange calls generateMonths
UpdateMonthRangeCall ==
    \E start \in RangeStarts, end \in RangeEnds :
        /\ calls < MaxCalls
        /\ frames = << >>
        /\ frames' = << GenerateMonthsFrame(MonthRange(start, end),
                                            MonthRange(start, end).startYear,
                                            MonthRange(start, end).startMonth, << >>) >>
        /\ completion' = NoOutcome
        /\ calls' = calls + 1
        /\ UNCHANGED <<budgetData, axisRange, applying>>

\* the test of the while loop of generateMonths
GenerateMonthsContinues(frame) ==
    \/ frame.currentYear < frame.monthRange.endYear
    \/ /\ frame.currentYear = frame.monthRange.endYear
       /\ frame.currentMonth <= frame.monthRange.endMonth

\* one iteration of the while loop
GenerateMonthsLoop ==
    /\ frames # << >>
    /\ Top.fn = "generateMonths"
    /\ GenerateMonthsContinues(Top)
    /\ LET months == Append(Top.months, BudgetMonth(Top.currentYear, Top.currentMonth))
           currentMonth == Top.currentMonth + 1
       IN  frames' = IF currentMonth > 12
                     THEN << GenerateMonthsFrame(Top.monthRange, Top.currentYear + 1, 1, months) >>
                     ELSE << GenerateMonthsFrame(Top.monthRange, Top.currentYear,
                                                 currentMonth, months) >>
    /\ UNCHANGED <<budgetData, calls, axisRange, applying, completion>>

\* generateMonths returns its months and updateMonthRange sets them
GenerateMonthsReturn ==
    /\ frames # << >>
    /\ Top.fn = "generateMonths"
    /\ ~GenerateMonthsContinues(Top)
    /\ budgetData' = [budgetData EXCEPT !.months = Top.months]
    /\ axisRange' = Top.monthRange
    /\ frames' = << >>
    /\ UNCHANGED <<calls, applying, completion>>

\* the steps of the call under way
Run ==
    \/ GetOpeningBalanceRun
    \/ GetOpeningBalanceReturn
    \/ GetClosingBalanceRun
    \/ GetClosingBalanceReturn
    \/ Propagate
    \/ GenerateMonthsLoop
    \/ GenerateMonthsReturn

NextBalance ==
    \/ GetOpeningBalanceCall
    \/ GetClosingBalanceCall
    \/ UpdateMonthRangeCall
    \/ Run

SpecBalance == Init /\ [][NextBalance]_vars /\ WF_vars(Run)


(***************************************************************************)
(* C24: the balance recurrence terminates.  A call of getOpeningBalance or *)
(* getClosingBalance for a month of the axis returns a number: up the call *)
(* stack the month index goes down by one from each getOpeningBalance      *)
(* frame to the next, so no function is entered twice for one month, the   *)
(* chain reaches index 0, and the stack is then unwound to the caller.     *)
(* generateMonths ends for every range, with the months of generateMonths. *)
(***************************************************************************)
BalanceFns == {"getOpeningBalance", "getClosingBalance"}

\* a balance call for a month of the axis is under way
OnAxisCall ==
    /\ frames # << >>
    /\ frames[1].fn \in BalanceFns
    /\ frames[1].monthKey \in AxisKeys(budgetData)

\* generateMonths is under way
GeneratingMonths == frames # << >> /\ frames[1].fn = "generateMonths"

\* the month index of frame i of a balance call
FrameIndex(i) == MonthIndex(budgetData, frames[i].monthKey)

\* each frame is called by the frame below it as the source calls it, a month earlier
\* from getOpeningBalance, and no function has two frames for one month
ChainDecreases ==
    (frames # << >> /\ frames[1].fn \in BalanceFns) =>
        /\ \A i \in 1..(Len(frames) - 1) :
               IF frames[i].fn = "getClosingBalance"
               THEN /\ frames[i + 1].fn = "getOpeningBalance"
                    /\ FrameIndex(i + 1) = FrameIndex(i)
               ELSE /\ frames[i + 1].fn = "getClosingBalance"
                    /\ FrameIndex(i + 1) = FrameIndex(i) - 1
        /\ \A i, j \in 1..Len(frames) :
               (i < j /\ frames[i].fn = frames[j].fn) =>
                   /\ FrameIndex(j) < FrameIndex(i)
                   /\ FrameIndex(j) >= 0

\* the chain of an on-axis call has come down to index 0
AtIndexZero ==
    /\ OnAxisCall
    /\ Top.fn = "getOpeningBalance"
    /\ FrameIndex(Len(frames)) = 0

\* an on-axis call never has a TypeError on its way
NoThrowOnAxis == OnAxisCall => (completion = NoOutcome \/ Returned(completion))

\* the months generateMonths has pushed so far are the first months of its result
GeneratedSoFar ==
    GeneratingMonths =>
        /\ Len(Top.months) <= Len(generateMonths(Top.monthRange))
        /\ Top.months = SubSeq(generateMonths(Top.monthRange), 1, Len(Top.months))

C24_BalanceTerminates ==
    /\ [](ChainDecreases /\ NoThrowOnAxis /\ GeneratedSoFar)
    /\ (OnAxisCall /\ completion = NoOutcome) ~> AtIndexZero
    /\ OnAxisCall ~> (frames = << >> /\ Returned(completion))
    /\ GeneratingMonths ~> (frames = << >>)

\* on an axis that updateMonthRange built, a call for the third month or a later one
\* has come down to index 0
C24_Witness ==
    /\ axisRange # MonthRange(<<2025, 1>>, <<2025, 12>>)
    /\ OnAxisCall
    /\ FrameIndex(1) >= 2
    /\ AtIndexZero
    /\ Len(frames) >= 5

=============================================================================
